---- MODULE Spec2Model ----
(***************************************************************************)
(* Model of src/main.py: the date-phrase resolver parse_event_date and the *)
(* keyword aggregation pipeline of FacebookEventScraper (scrape,           *)
(* scrape_multiple, _extract_event_links, _parse_event_page,               *)
(* _filter_event_by_date) followed by the chain + sort of __main__.        *)
(*                                                                         *)
(* A phrase is a sequence of tokens (words, numbers, HH:MM clock values);  *)
(* the regular expressions of the source are matched token by token, the   *)
(* separating white space being implicit between two tokens.               *)
(***************************************************************************)
EXTENDS Integers, Sequences, FiniteSets, TLC

\* Python's None, and the empty string where a datetime may stand instead.
None == [kind |-> "none"]
Empty == [kind |-> "empty"]

(***************************************************************************)
(* datetime: the proleptic Gregorian calendar of Python's datetime module. *)
(***************************************************************************)
Dt(y, mo, d, h, mi) == [kind |-> "dt", y |-> y, mo |-> mo, d |-> d, h |-> h, mi |-> mi]

IsLeap(y) == (y % 4 = 0) /\ ((y % 100 # 0) \/ (y % 400 = 0))

DaysInMonth(y, mo) ==
    IF mo = 2 THEN (IF IsLeap(y) THEN 29 ELSE 28)
    ELSE IF mo \in {4, 6, 9, 11} THEN 30 ELSE 31

\* datetime(...) raises ValueError unless the date exists.
ValidDate(y, mo, d) ==
    /\ y >= 1 /\ y <= 9999
    /\ mo \in 1..12
    /\ d >= 1 /\ d <= DaysInMonth(y, mo)

RECURSIVE DaysBeforeMonth(_, _)
DaysBeforeMonth(y, mo) ==
    IF mo <= 1 THEN 0 ELSE DaysBeforeMonth(y, mo - 1) + DaysInMonth(y, mo - 1)

DaysBeforeYear(y) ==
    (y - 1) * 365 + ((y - 1) \div 4) - ((y - 1) \div 100) + ((y - 1) \div 400)

\* date.toordinal(): 1 for 0001-01-01.
ToOrdinal(dt) == DaysBeforeYear(dt.y) + DaysBeforeMonth(dt.y, dt.mo) + dt.d

\* date.weekday(): Monday is 0, Sunday is 6.
Weekday(dt) == (ToOrdinal(dt) + 6) % 7

NextDay(dt) ==
    IF dt.d < DaysInMonth(dt.y, dt.mo) THEN [dt EXCEPT !.d = dt.d + 1]
    ELSE IF dt.mo < 12 THEN [dt EXCEPT !.d = 1, !.mo = dt.mo + 1]
    ELSE [dt EXCEPT !.d = 1, !.mo = 1, !.y = dt.y + 1]

\* dt + timedelta(days=n), n >= 0.
RECURSIVE AddDays(_, _)
AddDays(dt, n) == IF n <= 0 THEN dt ELSE AddDays(NextDay(dt), n - 1)

\* Total order of naive datetimes, in minutes.
DtKey(dt) == ToOrdinal(dt) * 1440 + dt.h * 60 + dt.mi

DtLt(a, b) == DtKey(a) < DtKey(b)
DtLe(a, b) == DtKey(a) <= DtKey(b)

\* datetime.combine(event_date, datetime.min.time()): midnight of that date.
Midnight(dt) == [dt EXCEPT !.h = 0, !.mi = 0]


\* The clock of the process: the index in Clock of what datetime.now() gives.
VARIABLE now

\* datetime.now() along a run: late on Saturday 14 June 2025, then past midnight.
Clock == <<Dt(2025, 6, 14, 23, 30), Dt(2025, 6, 15, 0, 30)>>

(***************************************************************************)
(* Tokens of a phrase.  W: a word; N: a number written with len digits;    *)
(* T: a clock value "h:mm" whose hour is written with len digits.          *)
(***************************************************************************)
W(s) == [k |-> "w", s |-> s, v |-> 0, m |-> 0, len |-> 0]
N(v, len) == [k |-> "n", s |-> "", v |-> v, m |-> 0, len |-> len]
T(h, m, len) == [k |-> "t", s |-> "", v |-> h, m |-> m, len |-> len]

\* str.lower() on the capitalised words of the vocabulary.
Lower(s) ==
    CASE s = "Demain" -> "demain"
      [] s = "Samedi" -> "samedi"
      [] s = "Vendredi" -> "vendredi"
      [] s = "Du" -> "du"
      [] OTHER -> s

\* date_text.strip().lower()
LowerText(toks) ==
    [i \in 1..Len(toks) |-> IF toks[i].k = "w" THEN W(Lower(toks[i].s)) ELSE toks[i]]

\* month.strip("."): the dotted abbreviations of the vocabulary.
StripDot(s) ==
    CASE s = "déc." -> "déc"
      [] s = "janv." -> "janv"
      [] s = "févr." -> "févr"
      [] s = "december." -> "december"
      [] OTHER -> s

FR_MONTHS ==
    [w \in {"janvier", "février", "mars", "avril", "mai", "juin", "juillet",
            "août", "septembre", "octobre", "novembre", "décembre", "janv",
            "févr", "avr", "juil", "sept", "oct", "nov", "déc", "mar"} |->
        CASE w \in {"janvier", "janv"} -> "january"
          [] w \in {"février", "févr"} -> "february"
          [] w \in {"mars", "mar"} -> "march"
          [] w \in {"avril", "avr"} -> "april"
          [] w = "mai" -> "may"
          [] w = "juin" -> "june"
          [] w \in {"juillet", "juil"} -> "july"
          [] w = "août" -> "august"
          [] w \in {"septembre", "sept"} -> "september"
          [] w \in {"octobre", "oct"} -> "october"
          [] w \in {"novembre", "nov"} -> "november"
          [] OTHER -> "december"]

\* FR_MONTHS.get(month.strip("."), month): the default is the unstripped word.
MonthEn(month) ==
    IF StripDot(month) \in DOMAIN FR_MONTHS THEN FR_MONTHS[StripDot(month)] ELSE month

WEEKDAYS ==
    [w \in {"demain", "lundi", "mardi", "mercredi", "jeudi", "vendredi",
            "samedi", "dimanche"} |->
        CASE w = "demain" -> 0 - 1
          [] w = "lundi" -> 0
          [] w = "mardi" -> 1
          [] w = "mercredi" -> 2
          [] w = "jeudi" -> 3
          [] w = "vendredi" -> 4
          [] w = "samedi" -> 5
          [] OTHER -> 6]

\* The month names strptime's %B accepts under the LC_TIME locale in force:
\* the names of the C locale when setlocale failed, the French names when it
\* succeeded.
MonthNames(lc) ==
    IF lc = "fr_FR"
    THEN <<"janvier", "février", "mars", "avril", "mai", "juin", "juillet",
           "août", "septembre", "octobre", "novembre", "décembre">>
    ELSE <<"january", "february", "march", "april", "may", "june", "july",
           "august", "september", "october", "november", "december">>

MonthNumber(name, lc) ==
    IF \E i \in 1..12 : MonthNames(lc)[i] = name
    THEN CHOOSE i \in 1..12 : MonthNames(lc)[i] = name
    ELSE 0

\* datetime.strptime(f"{day} {month_en} {year} {time}", "%d %B %Y %H:%M"):
\* None stands for the ValueError.  %d takes 1..31, %H 0..23, %M 0..59.
Strptime(day, month_en, year, h, mi, lc) ==
    LET mo == MonthNumber(month_en, lc) IN
    IF /\ day \in 1..31
       /\ mo # 0
       /\ h \in 0..23
       /\ mi \in 0..59
       /\ ValidDate(year, mo, day)
    THEN Dt(year, mo, day, h, mi)
    ELSE None

\* dt.replace(year=y): None stands for the ValueError (29 February).
ReplaceYear(dt, y) ==
    IF ValidDate(y, dt.mo, dt.d) THEN [dt EXCEPT !.y = y] ELSE None

(***************************************************************************)
(* The regular expressions, matched on tokens.  [a-zéû\.]+ accepts every   *)
(* lower-case word of the vocabulary but "à".  Each operator gives the     *)
(* positions at which the pattern matches; re.search takes the leftmost.   *)
(***************************************************************************)
IsWord(t, s) == t.k = "w" /\ t.s = s
IsAlpha(t) == t.k = "w" /\ t.s \notin {"à", "Demain", "Samedi", "Vendredi", "Du"}
\* (\d{1,2}) right after a literal: a number of one or two digits.
IsDay(t) == t.k = "n" /\ t.len \in 1..2
\* (\d{1,2}) where the pattern may start inside a token: the search also takes
\* the last two digits of a longer number, or the minutes of a clock value.
EndsInDay(t) == t.k \in {"n", "t"}
DayOf(t) == IF t.k = "t" THEN t.m ELSE t.v % 100
IsYear(t) == t.k = "n" /\ t.len = 4
IsTime12(t) == t.k = "t" /\ t.len \in 1..2
IsTime2(t) == t.k = "t" /\ t.len = 2

Window(toks, n) == {i \in 1..Len(toks) : i + n - 1 <= Len(toks)}

\* REGEX_TIME_CASE
REGEX_TIME_CASE(toks) ==
    {i \in Window(toks, 3) :
        IsTime12(toks[i]) /\ IsWord(toks[i + 1], "à") /\ IsTime12(toks[i + 2])}

\* REGEX_DATE_CASE_2
REGEX_DATE_CASE_2(toks) ==
    {i \in Window(toks, 5) :
        /\ IsAlpha(toks[i]) /\ IsWord(toks[i + 1], "de") /\ IsTime12(toks[i + 2])
        /\ IsWord(toks[i + 3], "à") /\ IsTime12(toks[i + 4])}

\* REGEX_DATE_CASE_3
REGEX_DATE_CASE_3(toks) ==
    {i \in Window(toks, 3) :
        EndsInDay(toks[i]) /\ IsAlpha(toks[i + 1]) /\ IsYear(toks[i + 2])}

\* REGEX_DATE_CASE_4 (its leading word is optional and not captured)
REGEX_DATE_CASE_4(toks) ==
    {i \in Window(toks, 5) :
        /\ EndsInDay(toks[i]) /\ IsAlpha(toks[i + 1]) /\ IsYear(toks[i + 2])
        /\ IsWord(toks[i + 3], "à") /\ IsTime2(toks[i + 4])}

\* REGEX_DATE_CASE_5
REGEX_DATE_CASE_5(toks) ==
    {i \in Window(toks, 8) :
        /\ IsWord(toks[i], "du") /\ IsDay(toks[i + 1]) /\ IsAlpha(toks[i + 2])
        /\ IsTime2(toks[i + 3]) /\ IsWord(toks[i + 4], "au") /\ IsDay(toks[i + 5])
        /\ IsAlpha(toks[i + 6]) /\ IsTime2(toks[i + 7])}

\* REGEX_DATE_CASE_6
REGEX_DATE_CASE_6(toks) ==
    {i \in Window(toks, 3) :
        /\ toks[i].k = "w" /\ toks[i].s \in DOMAIN WEEKDAYS
        /\ IsWord(toks[i + 1], "à") /\ IsTime12(toks[i + 2])}

\* re.search: the leftmost match.
First(S) == CHOOSE i \in S : \A j \in S : i <= j

\* "name" in date_text
InText(name, toks) == \E i \in 1..Len(toks) : IsWord(toks[i], name)

(***************************************************************************)
(* parse_event_date.  A result is (start, end), (None, None), or the       *)
(* ValueError that datetime.replace(hour=, minute=) raises out of the      *)
(* function.                                                               *)
(***************************************************************************)
Interval(start, end) == [kind |-> "ok", start |-> start, end |-> end]
NoneNone == [kind |-> "none", start |-> None, end |-> None]
Raised == [kind |-> "raise", start |-> None, end |-> None]

\* Mutant of Case5: a start before the reference instant is returned as read.
Case5StartNotMoved(toks, ref_date, lc) ==
    LET i == First(REGEX_DATE_CASE_5(toks))
        year == ref_date.y
        start0 == Strptime(toks[i + 1].v, MonthEn(toks[i + 2].s), year,
                           toks[i + 3].v, toks[i + 3].m, lc)
        end0 == Strptime(toks[i + 5].v, MonthEn(toks[i + 6].s), year,
                         toks[i + 7].v, toks[i + 7].m, lc)
    IN  IF start0 = None \/ end0 = None THEN NoneNone
        ELSE LET end_dt == IF DtLt(end0, start0) THEN ReplaceYear(end0, year + 1) ELSE end0
             IN  IF end_dt = None THEN NoneNone ELSE Interval(start0, end_dt)

\* Mutant of Case5: an end before the start is left in the reference year.
Case5EndNotMoved(toks, ref_date, lc) ==
    LET i == First(REGEX_DATE_CASE_5(toks))
        year == ref_date.y
        start0 == Strptime(toks[i + 1].v, MonthEn(toks[i + 2].s), year,
                           toks[i + 3].v, toks[i + 3].m, lc)
        end0 == Strptime(toks[i + 5].v, MonthEn(toks[i + 6].s), year,
                         toks[i + 7].v, toks[i + 7].m, lc)
    IN  IF start0 = None \/ end0 = None THEN NoneNone
        ELSE LET start_dt == IF DtLt(start0, ref_date) THEN ReplaceYear(start0, year + 1)
                             ELSE start0
             IN  IF start_dt = None THEN NoneNone ELSE Interval(start_dt, end0)

\* Case 5: du 18 déc. 20:00 au 22 déc. 03:00
Case5(toks, ref_date, lc) ==
    LET i == First(REGEX_DATE_CASE_5(toks))
        year == ref_date.y
        start0 == Strptime(toks[i + 1].v, MonthEn(toks[i + 2].s), year,
                           toks[i + 3].v, toks[i + 3].m, lc)
        end0 == Strptime(toks[i + 5].v, MonthEn(toks[i + 6].s), year,
                         toks[i + 7].v, toks[i + 7].m, lc)
    IN  IF start0 = None \/ end0 = None THEN NoneNone
        ELSE LET end_dt == IF DtLt(end0, start0) THEN ReplaceYear(end0, year + 1) ELSE end0
                 start_dt == IF DtLt(start0, ref_date) THEN ReplaceYear(start0, year + 1)
                             ELSE start0
             IN  IF end_dt = None \/ start_dt = None THEN NoneNone
                 ELSE Interval(start_dt, end_dt)

\* Mutant of Case4: the year is the one of the reference instant.
Case4RefYear(toks, ref_date, lc) ==
    LET i == First(REGEX_DATE_CASE_4(toks))
        start_dt == Strptime(DayOf(toks[i]), MonthEn(toks[i + 1].s), ref_date.y,
                             toks[i + 4].v, toks[i + 4].m, lc)
    IN  IF start_dt = None THEN NoneNone ELSE Interval(start_dt, start_dt)

\* Case 4: Vendredi 19 septembre 2025 à 21:00
Case4(toks, ref_date, lc) ==
    LET i == First(REGEX_DATE_CASE_4(toks))
        start_dt == Strptime(DayOf(toks[i]), MonthEn(toks[i + 1].s), toks[i + 2].v,
                             toks[i + 4].v, toks[i + 4].m, lc)
    IN  IF start_dt = None THEN NoneNone ELSE Interval(start_dt, start_dt)

\* Mutant of DaysAhead: the named weekday of today is taken a week later.
DaysAheadSkipWeek(wd_num, ref_date) ==
    IF (wd_num - Weekday(ref_date)) % 7 = 0 THEN 7 ELSE (wd_num - Weekday(ref_date)) % 7

\* (wd_num - ref_date.weekday()) % 7
DaysAhead(wd_num, ref_date) == (wd_num - Weekday(ref_date)) % 7

\* datetime.combine(event_date, datetime.min.time()).replace(hour=, minute=)
AtTime(event_date, hour, minute) ==
    IF hour \in 0..23 /\ minute \in 0..59
    THEN [Midnight(event_date) EXCEPT !.h = hour, !.mi = minute]
    ELSE None

\* Case 6: "demain à HH:MM" and "<weekday> à HH:MM"
Case6(toks, ref_date, lc) ==
    LET i == First(REGEX_DATE_CASE_6(toks))
        wd_name == toks[i].s
        event_date == IF wd_name = "demain" THEN AddDays(ref_date, 1)
                      ELSE AddDays(ref_date, DaysAhead(WEEKDAYS[wd_name], ref_date))
        start_dt == AtTime(event_date, toks[i + 2].v, toks[i + 2].m)
    IN  IF start_dt = None THEN Raised ELSE Interval(start_dt, start_dt)

\* The weekday loop of the time-range case: the first name of WEEKDAYS, in
\* the order of the dict, that occurs in the text and has wd_num > 0.
WeekdayInText(toks) ==
    LET S == {w \in DOMAIN WEEKDAYS : InText(w, toks) /\ WEEKDAYS[w] > 0}
    IN  IF S = {} THEN None
        ELSE [kind |-> "wd", num |-> CHOOSE n \in 1..6 :
                  /\ \E w \in S : WEEKDAYS[w] = n
                  /\ \A w \in S : n <= WEEKDAYS[w]]

\* Mutant of EventDate: "demain" and a weekday name go before a full date.
EventDateFullLast(toks, ref_date, lc) ==
    LET full == REGEX_DATE_CASE_3(toks)
        wd == WeekdayInText(toks)
    IN  IF InText("demain", toks) THEN AddDays(ref_date, 1)
        ELSE IF wd # None THEN AddDays(ref_date, DaysAhead(wd.num, ref_date))
        ELSE IF full # {}
        THEN LET i == First(full)
                 d == Strptime(DayOf(toks[i]), MonthEn(toks[i + 1].s), toks[i + 2].v, 0, 0, lc)
             IN  IF d = None THEN ref_date ELSE d
        ELSE ref_date

\* The event date of the time-range case (Cases 1, 2 and 3 of the source).
EventDate(toks, ref_date, lc) ==
    LET demain == IF InText("demain", toks) THEN AddDays(ref_date, 1) ELSE ref_date
        full == REGEX_DATE_CASE_3(toks)
    IN  IF full # {}
        THEN LET i == First(full)
                 d == Strptime(DayOf(toks[i]), MonthEn(toks[i + 1].s), toks[i + 2].v, 0, 0, lc)
             IN  IF d = None THEN demain ELSE d
        ELSE LET wd == WeekdayInText(toks)
             IN  IF wd = None THEN demain
                 ELSE AddDays(ref_date, DaysAhead(wd.num, ref_date))

\* Mutant of CaseTime: the end is wrapped only when strictly before the start.
CaseTimeStrictWrap(toks, ref_date, lc) ==
    LET i == First(REGEX_TIME_CASE(toks))
        event_date == EventDate(toks, ref_date, lc)
        start_dt == AtTime(event_date, toks[i].v, toks[i].m)
        end0 == AtTime(event_date, toks[i + 2].v, toks[i + 2].m)
    IN  IF start_dt = None \/ end0 = None THEN Raised
        ELSE Interval(start_dt,
                      IF DtLt(end0, start_dt) THEN AddDays(end0, 1) ELSE end0)

\* The time-range case: HH:MM à HH:MM, with the overnight wrap.
CaseTime(toks, ref_date, lc) ==
    LET i == First(REGEX_TIME_CASE(toks))
        event_date == EventDate(toks, ref_date, lc)
        start_dt == AtTime(event_date, toks[i].v, toks[i].m)
        end0 == AtTime(event_date, toks[i + 2].v, toks[i + 2].m)
    IN  IF start_dt = None \/ end0 = None THEN Raised
        ELSE Interval(start_dt,
                      IF DtLe(end0, start_dt) THEN AddDays(end0, 1) ELSE end0)

\* Mutant of Cascade: the bare time range is tried before the other cases.
CascadeTimeFirst(toks, ref_date, lc) ==
    IF REGEX_TIME_CASE(toks) # {} THEN CaseTime(toks, ref_date, lc)
    ELSE IF REGEX_DATE_CASE_5(toks) # {} THEN Case5(toks, ref_date, lc)
    ELSE IF REGEX_DATE_CASE_4(toks) # {} THEN Case4(toks, ref_date, lc)
    ELSE IF REGEX_DATE_CASE_6(toks) # {} THEN Case6(toks, ref_date, lc)
    ELSE NoneNone

\* The cascade, on the lower-cased text.
Cascade(toks, ref_date, lc) ==
    IF REGEX_DATE_CASE_5(toks) # {} THEN Case5(toks, ref_date, lc)
    ELSE IF REGEX_DATE_CASE_4(toks) # {} THEN Case4(toks, ref_date, lc)
    ELSE IF REGEX_DATE_CASE_6(toks) # {} THEN Case6(toks, ref_date, lc)
    ELSE IF REGEX_TIME_CASE(toks) # {} THEN CaseTime(toks, ref_date, lc)
    ELSE NoneNone

\* Mutant of parse_event_date: the reference instant is always datetime.now().
ParseFromNow(date_text, ref_date, lc) ==
    Cascade(LowerText(date_text), Clock[now], lc)

parse_event_date(date_text, ref_date, lc) == Cascade(LowerText(date_text), ref_date, lc)

(***************************************************************************)
(* FacebookEventScraper: the helpers of the aggregation pipeline.          *)
(***************************************************************************)
\* Python truthiness: "" and None are falsy, a datetime is truthy.
Truthy(v) == v # Empty /\ v # None

\* An href of the search page: None (no attribute), or a path with an
\* optional query string, absolute when it starts with self.url.
Href(abs, path, query) == [kind |-> "href", abs |-> abs, path |-> path, query |-> query]

\* href.split("?")[0]
CleanHref(href) == href.path

\* The guard of the loop of _extract_event_links ("events" is in every href
\* the selector a[href*='/events/'] returns).
SkipHref(href) == href = None \/ href.abs

\* _extract_event_links: the new links in page order, and the seen set after.
RECURSIVE ExtractFrom(_, _, _)
ExtractFrom(hrefs, seen0, event_links0) ==
    IF hrefs = <<>> THEN [event_links |-> event_links0, seen |-> seen0]
    ELSE LET href == Head(hrefs) IN
         IF SkipHref(href) THEN ExtractFrom(Tail(hrefs), seen0, event_links0)
         ELSE IF CleanHref(href) \in seen0
              THEN ExtractFrom(Tail(hrefs), seen0, event_links0)
              ELSE ExtractFrom(Tail(hrefs), seen0 \cup {CleanHref(href)},
                               Append(event_links0, CleanHref(href)))

\* Mutant of _extract_event_links: the test against the seen set is left out.
RECURSIVE ExtractAll(_, _, _)
ExtractAll(hrefs, seen0, event_links0) ==
    IF hrefs = <<>> THEN [event_links |-> event_links0, seen |-> seen0]
    ELSE LET href == Head(hrefs) IN
         IF SkipHref(href) THEN ExtractAll(Tail(hrefs), seen0, event_links0)
         ELSE ExtractAll(Tail(hrefs), seen0 \cup {CleanHref(href)},
                         Append(event_links0, CleanHref(href)))

ExtractNoSeenTest(hrefs, seen0) == ExtractAll(hrefs, seen0, <<>>)

\* Mutant of _extract_event_links: a new link is returned but not marked.
RECURSIVE ExtractUnmarked(_, _, _)
ExtractUnmarked(hrefs, seen0, event_links0) ==
    IF hrefs = <<>> THEN [event_links |-> event_links0, seen |-> seen0]
    ELSE LET href == Head(hrefs) IN
         IF SkipHref(href) \/ CleanHref(href) \in seen0
         THEN ExtractUnmarked(Tail(hrefs), seen0, event_links0)
         ELSE ExtractUnmarked(Tail(hrefs), seen0, Append(event_links0, CleanHref(href)))

ExtractNoMark(hrefs, seen0) == ExtractUnmarked(hrefs, seen0, <<>>)

_extract_event_links(hrefs, seen0) == ExtractFrom(hrefs, seen0, <<>>)

\* The four patterns _get_event_date tries on a span, with re.IGNORECASE.
IsDateSpan(text) ==
    LET toks == LowerText(text) IN
    \/ REGEX_DATE_CASE_2(toks) # {}
    \/ REGEX_DATE_CASE_3(toks) # {}
    \/ REGEX_DATE_CASE_4(toks) # {}
    \/ REGEX_DATE_CASE_5(toks) # {}

\* The inner loop of _get_event_date: the first matching span of a block.
RECURSIVE FirstDateSpan(_)
FirstDateSpan(spans) ==
    IF spans = <<>> THEN <<>>
    ELSE IF IsDateSpan(Head(spans)) THEN Head(spans)
    ELSE FirstDateSpan(Tail(spans))

\* _get_event_date: every block is visited, a later block's match replaces
\* an earlier one's.
RECURSIVE GetEventDateFrom(_, _)
GetEventDateFrom(blocks, date) ==
    IF blocks = <<>> THEN date
    ELSE LET found == FirstDateSpan(Head(blocks)) IN
         GetEventDateFrom(Tail(blocks), IF found = <<>> THEN date ELSE found)

\* The empty text <<>> is the string "".
_get_event_date(blocks) == GetEventDateFrom(blocks, <<>>)

FR_WEEKDAY ==
    [w \in {"monday", "tuesday", "wednesday", "thursday", "friday", "saturday",
            "sunday"} |->
        CASE w = "monday" -> "lundi"
          [] w = "tuesday" -> "mardi"
          [] w = "wednesday" -> "mercredi"
          [] w = "thursday" -> "jeudi"
          [] w = "friday" -> "vendredi"
          [] w = "saturday" -> "samedi"
          [] OTHER -> "dimanche"]

\* start_dt.strftime("%A").lower() under the LC_TIME locale in force.
DayName(dt, lc) ==
    IF lc = "fr_FR"
    THEN <<"lundi", "mardi", "mercredi", "jeudi", "vendredi", "samedi",
           "dimanche">>[Weekday(dt) + 1]
    ELSE <<"monday", "tuesday", "wednesday", "thursday", "friday", "saturday",
           "sunday">>[Weekday(dt) + 1]

\* f"{weekday_fr} - {start_time} à {end_time}", the times as %Hh%M.
Hm(dt) == [k |-> "hm", s |-> "", v |-> dt.h, m |-> dt.mi, len |-> 2]
Capitalize(s) ==
    CASE s = "lundi" -> "Lundi"
      [] s = "mardi" -> "Mardi"
      [] s = "mercredi" -> "Mercredi"
      [] s = "jeudi" -> "Jeudi"
      [] s = "vendredi" -> "Vendredi"
      [] s = "samedi" -> "Samedi"
      [] s = "dimanche" -> "Dimanche"
      [] OTHER -> s
DateLine(weekday_fr, start_dt, end_dt) ==
    <<W(Capitalize(weekday_fr)), W("-"), Hm(start_dt), W("à"), Hm(end_dt)>>

\* The result of _parse_event_page: None, an info dict, or an exception.
Info(date, start_dt, end_dt, title, location, link) ==
    [kind |-> "info", date |-> date, start_dt |-> start_dt, end_dt |-> end_dt,
     title |-> title, location |-> location, link |-> link]
PageRaised == [kind |-> "raise"]

\* The body of _parse_event_page once the page is loaded: page holds the
\* blocks and the title and location the selectors find on it.
ParseLoaded(page, event_url, ref_date, lc) ==
    LET date_line == _get_event_date(page.blocks)
        title == IF page.title = "" THEN "not found" ELSE page.title
        location == IF page.location = "" THEN "not found" ELSE page.location
    IN  IF date_line = <<>> THEN Info(<<>>, Empty, Empty, title, location, event_url)
        ELSE LET r == parse_event_date(date_line, ref_date, lc) IN
             IF r.kind = "raise" THEN PageRaised
             ELSE IF r.kind = "none"
                  THEN Info(date_line, None, None, title, location, event_url)
                  ELSE IF DayName(r.start, lc) \notin DOMAIN FR_WEEKDAY
                       THEN PageRaised
                       ELSE Info(DateLine(FR_WEEKDAY[DayName(r.start, lc)],
                                          r.start, r.end),
                                 r.start, r.end, title, location, event_url)

\* Mutant of _parse_event_page: the exception of page.goto is not caught.
ParsePageNoCatch(page, event_url, ref_date, lc) ==
    IF ~page.ok THEN PageRaised ELSE ParseLoaded(page, event_url, ref_date, lc)

\* _parse_event_page: a failed page.goto is caught and gives None.
_parse_event_page(page, event_url, ref_date, lc) ==
    IF ~page.ok THEN None ELSE ParseLoaded(page, event_url, ref_date, lc)

\* all(info.values()): the other values of the dict are non-empty literals.
AllValues(info) ==
    /\ info.date # <<>> /\ Truthy(info.start_dt) /\ Truthy(info.end_dt)
    /\ info.title # "" /\ info.location # "" /\ info.link # ""

\* Mutant of _filter_event_by_date: a bound supplied alone is applied.
FilterOneSided(start_dt, start_date, end_date) ==
    IF ~Truthy(start_date) /\ ~Truthy(end_date) THEN TRUE
    ELSE /\ Truthy(start_dt)
         /\ Truthy(start_date) => DtLe(start_date, start_dt)
         /\ Truthy(end_date) => DtLe(start_dt, end_date)

\* Mutant of _filter_event_by_date: the upper bound is exclusive.
FilterExclusiveEnd(start_dt, start_date, end_date) ==
    IF ~(Truthy(start_date) /\ Truthy(end_date)) THEN TRUE
    ELSE /\ Truthy(start_dt)
         /\ DtLe(start_date, start_dt)
         /\ DtLt(start_dt, end_date)

\* _filter_event_by_date, as the truth value of what it returns.
_filter_event_by_date(start_dt, start_date, end_date) ==
    IF ~(Truthy(start_date) /\ Truthy(end_date)) THEN TRUE
    ELSE /\ Truthy(start_dt)
         /\ DtLe(start_date, start_dt)
         /\ DtLe(start_dt, end_date)

\* The body of the loop of scrape: the events list after one candidate.
KeepEvent(events0, info, start_date, end_date) ==
    IF info = None \/ ~AllValues(info) THEN events0
    ELSE IF _filter_event_by_date(info.start_dt, start_date, end_date)
         THEN Append(events0, info)
         ELSE events0

\* all_results[keyword] = events, on a dict kept as its item list: a new key
\* goes last, an existing key keeps its place and takes the new value.
DictSet(d, key, value) ==
    IF \E i \in 1..Len(d) : d[i].key = key
    THEN [i \in 1..Len(d) |-> IF d[i].key = key THEN [key |-> key, value |-> value]
                              ELSE d[i]]
    ELSE Append(d, [key |-> key, value |-> value])

\* list(chain.from_iterable(resultados.values()))
RECURSIVE Chain(_)
Chain(d) == IF d = <<>> THEN <<>> ELSE Head(d).value \o Chain(Tail(d))

\* list.sort on the key start_dt: stable, ascending.
RECURSIVE InsertSorted(_, _)
InsertSorted(sorted, e) ==
    IF sorted = <<>> THEN <<e>>
    ELSE IF DtLt(e.start_dt, sorted[Len(sorted)].start_dt)
         THEN Append(InsertSorted(SubSeq(sorted, 1, Len(sorted) - 1), e),
                     sorted[Len(sorted)])
         ELSE Append(sorted, e)

RECURSIVE SortFrom(_, _)
SortFrom(todo, sorted) ==
    IF todo = <<>> THEN sorted
    ELSE SortFrom(Tail(todo), InsertSorted(sorted, Head(todo)))

\* Mutant of SortByStart: the list is left in the order of the chain.
NoSort(events0) == events0

SortByStart(events0) == SortFrom(events0, <<>>)

(***************************************************************************)
(* State.                                                                  *)
(***************************************************************************)
VARIABLES
    lc_time,      \* the LC_TIME locale after the module-level setlocale
    seen,         \* self.seen
    keywords,     \* scrape_multiple: its keywords argument
    start_date,   \* scrape_multiple: its start_date argument
    end_date,     \* scrape_multiple: its end_date argument
    all_results,  \* scrape_multiple: the dict, as its list of items
    ki,           \* scrape_multiple: index of the keyword being scraped
    event_links,  \* scrape: the links _extract_event_links returned
    li,           \* scrape: index of the link the loop is at
    events,       \* scrape: the events list
    output,       \* __main__: events after chain and sort
    pc,           \* where the run stands
    fetched,      \* history: the detail fetches made on the object, in order
    discovered,   \* history: the records scrape appended in this run, in order
    skipped,      \* history: the hrefs this run passed over as already seen
    date_text,    \* parse_event_date called alone: its arguments and result
    ref_date,
    result,
    info_start,   \* _filter_event_by_date called alone: info["start_dt"], result
    kept,
    hpc,          \* where the lone call stands
    memo,         \* history: one earlier call of parse_event_date, or None
    page_shown    \* _parse_event_page called alone: what page.goto gives

pipeVars == <<seen, keywords, start_date, end_date, all_results, ki, event_links,
              li, events, output, pc, now, fetched, discovered, skipped>>
callVars == <<date_text, ref_date, result, info_start, kept, hpc, memo,
              page_shown>>
vars == <<lc_time, pipeVars, callVars>>

(***************************************************************************)
(* Inputs.                                                                 *)
(***************************************************************************)
MaxKeywords == 3

URL == "https://www.facebook.com"

Keywords == {"salsa", "tango"}

RECURSIVE SeqsUpTo(_, _)
SeqsUpTo(S, n) ==
    IF n = 0 THEN {<<>>}
    ELSE LET shorter == SeqsUpTo(S, n - 1) IN
         shorter \cup {Append(q, x) : q \in shorter, x \in S}

\* The keyword lists of a run: up to MaxKeywords keywords, repeats allowed.
\* The two keywords are interchangeable, so every list starts with "salsa".
KeywordLists == {kws \in SeqsUpTo(Keywords, MaxKeywords) \ {<<>>} : kws[1] = "salsa"}

\* The hrefs a search page may list.
H1 == Href(FALSE, "/events/1/", "")
H1q == Href(FALSE, "/events/1/", "ref=search")
H2 == Href(FALSE, "/events/2/", "")
HAbs == Href(TRUE, "https://www.facebook.com/events/3/", "")

SearchPages == {<<>>, <<H1, H1q>>, <<None, HAbs, H2, H1q, H2>>}

\* The date phrases an event page may show.
PhSat == <<W("Samedi"), W("de"), T(20, 0, 2), W("à"), T(1, 30, 2)>>
PhFri == <<W("Vendredi"), N(19, 2), W("septembre"), N(2025, 4), W("à"), T(21, 0, 2)>>
PhRange ==
    <<W("du"), N(18, 2), W("déc."), T(20, 0, 2), W("au"), N(22, 2), W("déc."), T(3, 0, 2)>>
PhClock == <<W("samedi"), W("de"), T(25, 0, 2), W("à"), T(26, 0, 2)>>
PhDemain == <<W("demain"), W("à"), T(20, 0, 2)>>
PhNoMonth == <<N(12, 2), W("foo"), N(2025, 4), W("à"), T(21, 0, 2)>>

Page(title, location, blocks) ==
    [ok |-> TRUE, title |-> title, location |-> location, blocks |-> blocks]
FailedPage == [ok |-> FALSE, title |-> "", location |-> "", blocks |-> <<>>]

\* What a detail fetch may give: a failed page.goto, or a loaded page.
Pages ==
    {FailedPage,
     Page("Salsa", "Paris, France", <<<<PhSat>>>>),
     Page("Tango", "Paris, France", <<<<<<W("Paris")>>, PhFri>>>>),
     Page("", "", <<<<PhSat>>>>),
     Page("Bal", "Paris, France", <<<<PhFri>>, <<PhRange, PhSat>>>>),
     Page("Salsa", "Paris, France", <<<<PhClock>>>>),
     Page("Salsa", "Paris, France", <<<<PhDemain>>>>),
     Page("Salsa", "Paris, France", <<<<PhNoMonth>>>>)}

\* The (start_date, end_date) a caller may pass.
WinFrom == Dt(2025, 6, 14, 20, 0)
WinTo == Dt(2025, 9, 19, 21, 0)
Windows ==
    {<<None, None>>, <<WinFrom, WinTo>>, <<WinTo, WinFrom>>, <<WinFrom, None>>}

Locales == {"C", "fr_FR"}

\* The phrases and reference instants parse_event_date is called alone with.
RangeDays == {N(1, 1), N(29, 2), N(31, 2)}
RangeMonths == {"mai", "déc.", "janv.", "févr.", "foo"}
RangeTimes == {T(20, 0, 2), T(3, 0, 2)}
RangePhrases ==
    {<<W("du"), d1, W(m1), t1, W("au"), d2, W(m2), t2>> :
        d1 \in RangeDays, m1 \in RangeMonths, t1 \in RangeTimes,
        d2 \in RangeDays, m2 \in RangeMonths, t2 \in RangeTimes}
    \cup {<<W("Du"), N(18, 2), W("déc."), T(25, 0, 2), W("au"), N(22, 2), W("déc."), T(3, 0, 2)>>,
          <<W("du"), N(18, 2), W("déc."), T(9, 0, 1), W("au"), N(22, 2), W("déc."), T(3, 0, 2)>>,
          <<W("lundi"), W("à"), T(10, 0, 2), W("du"), N(1, 1), W("mai"), T(20, 0, 2),
            W("au"), N(3, 1), W("mai"), T(3, 0, 2)>>,
          <<W("du"), N(18, 2), W("december."), T(20, 0, 2), W("au"), N(22, 2),
            W("december"), T(3, 0, 2)>>}

Suffixes == {<<>>, <<W("à"), T(23, 0, 2)>>}

SinglePhrases ==
    {lead \o <<d, W(m), N(y, 4), W("à"), t>> \o suffix :
        lead \in {<<>>, <<W("Vendredi")>>},
        d \in {N(19, 2), N(31, 2), N(0, 1)},
        m \in {"septembre", "avril", "foo", "december"},
        y \in {2025, 2026},
        t \in {T(21, 0, 2), T(9, 0, 1), T(25, 0, 2)},
        suffix \in Suffixes}

RelativePhrases ==
    {<<W(wd), W("à"), t>> \o suffix :
        wd \in DOMAIN WEEKDAYS \cup {"Demain"},
        t \in {T(20, 0, 2), T(9, 5, 1), T(25, 0, 2), T(20, 61, 2)},
        suffix \in Suffixes}

TimePrefixes ==
    {<<>>} \cup {<<W(wd)>> : wd \in DOMAIN WEEKDAYS \cup {"Demain", "Samedi"}}
    \cup {<<W("Samedi"), N(11, 2), W("avril"), N(2026, 4)>>,
          <<W("samedi"), N(31, 2), W("avril"), N(2026, 4)>>,
          <<W("samedi"), N(11, 2), W("foo"), N(2026, 4)>>,
          <<W("demain"), N(11, 2), W("avril"), N(2026, 4)>>,
          <<W("demain"), N(31, 2), W("avril"), N(2026, 4)>>,
          <<W("demain"), W("samedi")>>,
          <<W("dimanche"), W("mardi")>>,
          <<W("lundi"), W("jeudi")>>}

TimePhrases ==
    {prefix \o de \o <<tt[1], W("à"), tt[2]>> :
        prefix \in TimePrefixes,
        de \in {<<>>, <<W("de")>>},
        tt \in {<<T(20, 0, 2), T(1, 30, 2)>>, <<T(20, 0, 2), T(23, 0, 2)>>,
                <<T(20, 0, 2), T(20, 0, 2)>>, <<T(25, 0, 2), T(26, 0, 2)>>,
                <<T(9, 0, 1), T(10, 75, 2)>>}}

OtherPhrases == {<<>>, <<W("foo")>>, <<T(20, 0, 2)>>, <<W("samedi"), N(11, 2), W("avril")>>}

Phrases == RangePhrases \cup SinglePhrases \cup RelativePhrases \cup TimePhrases
           \cup OtherPhrases

RefDates ==
    {Dt(2025, 6, d, 12, 0) : d \in 9..15}
    \cup {Dt(2025, 11, 1, 0, 0), Dt(2025, 12, 31, 23, 59), Dt(2024, 3, 5, 0, 0)}

\* The values _filter_event_by_date is called alone with.
FilterStarts ==
    {Empty, None, Dt(2025, 6, 14, 19, 59), WinFrom, Dt(2025, 7, 1, 0, 0), WinTo,
     Dt(2025, 9, 19, 21, 1)}
FilterBounds == {None, WinFrom, WinTo, Dt(2025, 7, 1, 0, 0)}

(***************************************************************************)
(* The aggregation run.                                                    *)
(***************************************************************************)
InitPipe ==
    /\ seen = {}
    /\ keywords = <<>>
    /\ start_date = None
    /\ end_date = None
    /\ all_results = <<>>
    /\ ki = 0
    /\ event_links = <<>>
    /\ li = 0
    /\ events = <<>>
    /\ output = <<>>
    /\ pc = "idle"
    /\ now = 1
    /\ fetched = <<>>
    /\ discovered = <<>>
    /\ skipped = {}

InitCall ==
    /\ date_text = <<>>
    /\ ref_date = None
    /\ result = None
    /\ info_start = None
    /\ kept = FALSE
    /\ hpc = "idle"
    /\ memo = None
    /\ page_shown = None

Init == lc_time \in Locales /\ InitPipe /\ InitCall

\* scrape_multiple is entered: all_results = {} and the loop over keywords.
ScrapeMultiple ==
    /\ pc = "idle"
    /\ \E kws \in KeywordLists, win \in Windows :
        /\ keywords' = kws
        /\ start_date' = win[1]
        /\ end_date' = win[2]
    /\ all_results' = <<>>
    /\ ki' = 1
    /\ pc' = "scrape"
    /\ UNCHANGED <<lc_time, seen, event_links, li, events, output, now, fetched,
                   discovered, skipped, callVars>>

\* scrape up to its loop: the search page is loaded and its links extracted.
Scrape ==
    /\ pc = "scrape"
    /\ \E hrefs \in SearchPages :
        LET x == _extract_event_links(hrefs, seen) IN
        /\ event_links' = x.event_links
        /\ seen' = x.seen
        /\ skipped' = skipped \cup
               {hrefs[i] : i \in {j \in 1..Len(hrefs) :
                   /\ ~SkipHref(hrefs[j])
                   /\ \/ CleanHref(hrefs[j]) \in seen
                      \/ \E k \in 1..(j - 1) :
                            ~SkipHref(hrefs[k]) /\ CleanHref(hrefs[k]) = CleanHref(hrefs[j])}}
    /\ events' = <<>>
    /\ li' = 1
    /\ pc' = "loop"
    /\ UNCHANGED <<lc_time, keywords, start_date, end_date, all_results, ki, output,
                   now, fetched, discovered, callVars>>

\* scrape: page.goto of the search page times out; nothing catches it.
ScrapeTimeout ==
    /\ pc = "scrape"
    /\ pc' = "raised"
    /\ UNCHANGED <<lc_time, seen, keywords, start_date, end_date, all_results, ki,
                   event_links, li, events, output, now, fetched, discovered,
                   skipped, callVars>>

\* History of a kept record: the record, with the title, location and date
\* fragments the extraction found on its page.
Found(info, page) ==
    [kind |-> "found", link |-> info.link, start_dt |-> info.start_dt,
     title |-> page.title, location |-> page.location,
     date |-> _get_event_date(page.blocks)]

\* One turn of the loop of scrape.
ScrapeLoop ==
    /\ pc = "loop"
    /\ li <= Len(event_links)
    /\ \E page \in Pages :
        LET clean_href == event_links[li]
            info == _parse_event_page(page, URL \o clean_href, Clock[now], lc_time)
        IN  /\ fetched' = Append(fetched, [link |-> clean_href, ok |-> page.ok])
            /\ IF info = PageRaised
               THEN /\ pc' = "raised"
                    /\ UNCHANGED <<events, li, discovered>>
               ELSE /\ events' = KeepEvent(events, info, start_date, end_date)
                    /\ li' = li + 1
                    /\ pc' = "loop"
                    /\ discovered' = IF events' = events THEN discovered
                                     ELSE Append(discovered, Found(info, page))
    /\ UNCHANGED <<lc_time, seen, keywords, start_date, end_date, all_results, ki,
                   event_links, output, now, skipped, callVars>>

\* scrape returns (its locals are gone) and scrape_multiple stores the list
\* under the keyword.
ScrapeReturn ==
    /\ pc = "loop"
    /\ li > Len(event_links)
    /\ all_results' = DictSet(all_results, keywords[ki], events)
    /\ IF ki < Len(keywords)
       THEN ki' = ki + 1 /\ pc' = "scrape"
       ELSE ki' = ki /\ pc' = "returned"
    /\ event_links' = <<>>
    /\ li' = 0
    /\ events' = <<>>
    /\ UNCHANGED <<lc_time, seen, keywords, start_date, end_date, output, now,
                   fetched, discovered, skipped, callVars>>

\* __main__: the lists of the dict are chained and sorted.
MainSort ==
    /\ pc = "returned"
    /\ output' = SortByStart(Chain(all_results))
    /\ pc' = "done"
    /\ UNCHANGED <<lc_time, seen, keywords, start_date, end_date, all_results, ki,
                   event_links, li, events, now, fetched, discovered, skipped,
                   callVars>>

\* Mutant of SendEventsEmail: the seen set is emptied when the run ends.
SendEventsEmailForgets ==
    /\ pc = "done"
    /\ pc' = "idle"
    /\ seen' = {}
    /\ keywords' = <<>>
    /\ start_date' = None
    /\ end_date' = None
    /\ all_results' = <<>>
    /\ ki' = 0
    /\ output' = <<>>
    /\ discovered' = <<>>
    /\ skipped' = {}
    /\ UNCHANGED <<lc_time, event_links, li, events, now, fetched, callVars>>

\* __main__: the sorted events are handed to send_events_email, which ends
\* the run; the scraper object, and its seen set, stay.
SendEventsEmail ==
    /\ pc = "done"
    /\ pc' = "idle"
    /\ keywords' = <<>>
    /\ start_date' = None
    /\ end_date' = None
    /\ all_results' = <<>>
    /\ ki' = 0
    /\ output' = <<>>
    /\ discovered' = <<>>
    /\ skipped' = {}
    /\ UNCHANGED <<lc_time, seen, event_links, li, events, now, fetched,
                   callVars>>

\* Time passes before a detail page is parsed, where datetime.now() is read.
Tick ==
    /\ pc = "loop"
    /\ li <= Len(event_links)
    /\ now < Len(Clock)
    /\ now' = now + 1
    /\ UNCHANGED <<lc_time, seen, keywords, start_date, end_date, all_results, ki,
                   event_links, li, events, output, pc, fetched, discovered,
                   skipped, callVars>>

Next ==
    \/ ScrapeMultiple
    \/ Scrape
    \/ ScrapeTimeout
    \/ ScrapeLoop
    \/ ScrapeReturn
    \/ MainSort
    \/ SendEventsEmail
    \/ Tick

Spec == Init /\ [][Next]_vars

(***************************************************************************)
(* parse_event_date called alone.                                          *)
(***************************************************************************)
InitParse ==
    /\ lc_time \in Locales
    /\ InitPipe
    /\ date_text \in Phrases
    /\ ref_date \in RefDates
    /\ result = None
    /\ info_start = None
    /\ kept = FALSE
    /\ hpc = "call"
    /\ memo = None
    /\ page_shown = None

ParseCall ==
    /\ hpc = "call"
    /\ result' = parse_event_date(date_text, ref_date, lc_time)
    /\ hpc' = "ret"
    /\ UNCHANGED <<lc_time, pipeVars, date_text, ref_date, info_start, kept, memo,
                   page_shown>>

NextParse == ParseCall

SpecParse == InitParse /\ [][NextParse]_vars

(***************************************************************************)
(* _filter_event_by_date called alone.                                     *)
(***************************************************************************)
InitFilter ==
    /\ lc_time \in Locales
    /\ seen = {}
    /\ keywords = <<>>
    /\ start_date \in FilterBounds
    /\ end_date \in FilterBounds
    /\ all_results = <<>>
    /\ ki = 0
    /\ event_links = <<>>
    /\ li = 0
    /\ events = <<>>
    /\ output = <<>>
    /\ pc = "idle"
    /\ now = 1
    /\ fetched = <<>>
    /\ discovered = <<>>
    /\ skipped = {}
    /\ date_text = <<>>
    /\ ref_date = None
    /\ result = None
    /\ info_start \in FilterStarts
    /\ kept = FALSE
    /\ hpc = "call"
    /\ memo = None
    /\ page_shown = None

FilterCall ==
    /\ hpc = "call"
    /\ kept' = _filter_event_by_date(info_start, start_date, end_date)
    /\ hpc' = "ret"
    /\ UNCHANGED <<lc_time, pipeVars, date_text, ref_date, result, info_start, memo,
                   page_shown>>

NextFilter == FilterCall

SpecFilter == InitFilter /\ [][NextFilter]_vars

(***************************************************************************)
(* parse_event_date called again and again in one process, while time      *)
(* passes; memo keeps one earlier call and whether another call followed.  *)
(***************************************************************************)
ReplayPhrases ==
    {PhSat, PhFri, PhRange, PhClock, PhDemain, PhNoMonth,
     <<W("samedi"), W("à"), T(20, 0, 2)>>,
     <<W("du"), N(1, 1), W("mai"), T(20, 0, 2), W("au"), N(3, 1), W("mai"), T(3, 0, 2)>>,
     <<W("Demain"), T(20, 0, 2), W("à"), T(1, 30, 2)>>,
     <<W("foo")>>}

ReplayRefs == {Clock[1], Clock[2], Dt(2025, 12, 31, 23, 59)}

InitReplay ==
    /\ lc_time \in Locales
    /\ InitPipe
    /\ date_text \in ReplayPhrases
    /\ ref_date \in ReplayRefs
    /\ result = None
    /\ info_start = None
    /\ kept = FALSE
    /\ hpc = "call"
    /\ memo = None
    /\ page_shown = None

ReplayCall ==
    /\ hpc = "call"
    /\ result' = parse_event_date(date_text, ref_date, lc_time)
    /\ hpc' = "ret"
    /\ \/ memo = None
          /\ memo' \in {None, [date_text |-> date_text, ref_date |-> ref_date,
                                result |-> result', later |-> FALSE]}
       \/ memo # None
          /\ memo' = [memo EXCEPT !.later =
                          @ \/ date_text # memo.date_text \/ ref_date # memo.ref_date]
    /\ UNCHANGED <<lc_time, pipeVars, date_text, ref_date, info_start, kept,
                   page_shown>>

\* The caller makes its next call.
ReplayNext ==
    /\ hpc = "ret"
    /\ date_text' \in ReplayPhrases
    /\ ref_date' \in ReplayRefs
    /\ result' = None
    /\ hpc' = "call"
    /\ UNCHANGED <<lc_time, pipeVars, info_start, kept, memo, page_shown>>

\* Time passes between two calls.
ReplayTick ==
    /\ hpc = "ret"
    /\ now < Len(Clock)
    /\ now' = now + 1
    /\ UNCHANGED <<lc_time, seen, keywords, start_date, end_date, all_results, ki,
                   event_links, li, events, output, pc, fetched, discovered,
                   skipped, callVars>>

NextReplay == ReplayCall \/ ReplayNext \/ ReplayTick

SpecReplay == InitReplay /\ [][NextReplay]_vars

(***************************************************************************)
(* The body of the loop of scrape called alone on one candidate: its page  *)
(* is parsed and its record kept or dropped.                               *)
(***************************************************************************)
PhBadDate ==
    <<W("Samedi"), N(31, 2), W("avril"), N(2026, 4), W("de"), T(20, 0, 2), W("à"),
      T(1, 30, 2)>>
PhWeekdayAt == <<W("Samedi"), W("à"), T(20, 0, 2)>>
PhBare == <<T(20, 0, 2), W("à"), T(23, 0, 2)>>

AlonePages ==
    Pages \cup {Page("Salsa", "Paris, France", <<<<PhBadDate>>>>),
                Page("Salsa", "Paris, France", <<<<PhWeekdayAt>>>>),
                Page("Salsa", "Paris, France", <<<<PhBare>>>>),
                Page("Salsa", "Paris, France", <<<<PhRange>>>>)}

InitPage ==
    /\ lc_time \in Locales
    /\ seen = {"/events/1/"}
    /\ keywords = <<"salsa">>
    /\ \E win \in Windows : start_date = win[1] /\ end_date = win[2]
    /\ all_results = <<>>
    /\ ki = 1
    /\ event_links = <<"/events/1/">>
    /\ li = 1
    /\ events = <<>>
    /\ output = <<>>
    /\ pc = "loop"
    /\ now \in 1..Len(Clock)
    /\ fetched = <<>>
    /\ discovered = <<>>
    /\ skipped = {}
    /\ date_text = <<>>
    /\ ref_date = None
    /\ result = None
    /\ info_start = None
    /\ kept = FALSE
    /\ hpc = "call"
    /\ memo = None
    /\ page_shown \in AlonePages

PageCall ==
    /\ hpc = "call"
    /\ LET info == _parse_event_page(page_shown, URL \o event_links[li], Clock[now],
                                     lc_time)
       IN  IF info = PageRaised
           THEN hpc' = "raised" /\ UNCHANGED events
           ELSE /\ events' = KeepEvent(events, info, start_date, end_date)
                /\ hpc' = "ret"
    /\ UNCHANGED <<lc_time, seen, keywords, start_date, end_date, all_results, ki,
                   event_links, li, output, pc, now, fetched, discovered, skipped,
                   date_text, ref_date, result, info_start, kept, memo, page_shown>>

NextPage == PageCall

SpecPage == InitPage /\ [][NextPage]_vars

(***************************************************************************)
(* Properties.                                                             *)
(***************************************************************************)
Returned == hpc = "ret"
Toks == LowerText(date_text)

\* C1: every interval parse_event_date returns has end >= start, in all
\* four grammar cases.
C1_EndNotBeforeStart ==
    Returned /\ result.kind = "ok" => DtLe(result.start, result.end)

NoDupLinks(recs) ==
    \A i, j \in 1..Len(recs) : recs[i].link = recs[j].link => i = j

\* C2: at every point of a run the accumulated records, and the final
\* result, hold at most one record per link.
C2_OneRecordPerLink ==
    /\ NoDupLinks(Chain(all_results) \o events)
    /\ NoDupLinks(output)

\* C2 witness: a finished run in which /events/1/ was listed again, with and
\* without a query string, after it had been marked, and is once in the result.
C2_Witness ==
    /\ pc = "done"
    /\ H1 \in skipped
    /\ H1q \in skipped
    /\ \E i \in 1..Len(output) : output[i].link = URL \o CleanHref(H1)

\* C3: the result is the one of the first case, in the order explicit range,
\* single date + time, weekday/demain + time, bare time range, whose pattern
\* matches; with no match it is (None, None).
C3_FirstMatchWins ==
    Returned =>
        /\ REGEX_DATE_CASE_5(Toks) # {} => result = Case5(Toks, ref_date, lc_time)
        /\ REGEX_DATE_CASE_5(Toks) = {} /\ REGEX_DATE_CASE_4(Toks) # {}
            => result = Case4(Toks, ref_date, lc_time)
        /\ REGEX_DATE_CASE_5(Toks) = {} /\ REGEX_DATE_CASE_4(Toks) = {}
           /\ REGEX_DATE_CASE_6(Toks) # {}
            => result = Case6(Toks, ref_date, lc_time)
        /\ REGEX_DATE_CASE_5(Toks) = {} /\ REGEX_DATE_CASE_4(Toks) = {}
           /\ REGEX_DATE_CASE_6(Toks) = {} /\ REGEX_TIME_CASE(Toks) # {}
            => result = CaseTime(Toks, ref_date, lc_time)
        /\ REGEX_DATE_CASE_5(Toks) = {} /\ REGEX_DATE_CASE_4(Toks) = {}
           /\ REGEX_DATE_CASE_6(Toks) = {} /\ REGEX_TIME_CASE(Toks) = {}
            => result = NoneNone

\* C3 witness: a phrase matching the single-date pattern and the time-range
\* pattern, resolved by the single-date case to an interval the time-range
\* case would not have given.
C3_Witness ==
    /\ Returned
    /\ result.kind = "ok"
    /\ REGEX_DATE_CASE_4(Toks) # {}
    /\ REGEX_TIME_CASE(Toks) # {}
    /\ CaseTime(Toks, ref_date, lc_time).kind = "ok"
    /\ CaseTime(Toks, ref_date, lc_time) # result

\* strptime fails on the day, month name and year of a date.
DateError(day, month, year) == Strptime(day, MonthEn(month), year, 0, 0, lc_time) = None

\* The case the cascade takes hits a calendar construction error.
CalendarError ==
    IF REGEX_DATE_CASE_5(Toks) # {}
    THEN LET i == First(REGEX_DATE_CASE_5(Toks)) IN
         \/ DateError(Toks[i + 1].v, Toks[i + 2].s, ref_date.y)
         \/ DateError(Toks[i + 5].v, Toks[i + 6].s, ref_date.y)
    ELSE IF REGEX_DATE_CASE_4(Toks) # {}
    THEN LET i == First(REGEX_DATE_CASE_4(Toks)) IN
         DateError(DayOf(Toks[i]), Toks[i + 1].s, Toks[i + 2].v)
    ELSE IF REGEX_DATE_CASE_6(Toks) # {} THEN FALSE
    ELSE IF REGEX_TIME_CASE(Toks) # {} /\ REGEX_DATE_CASE_3(Toks) # {}
    THEN LET i == First(REGEX_DATE_CASE_3(Toks)) IN
         DateError(DayOf(Toks[i]), Toks[i + 1].s, Toks[i + 2].v)
    ELSE FALSE

NoCaseMatches ==
    /\ REGEX_DATE_CASE_5(Toks) = {} /\ REGEX_DATE_CASE_4(Toks) = {}
    /\ REGEX_DATE_CASE_6(Toks) = {} /\ REGEX_TIME_CASE(Toks) = {}

\* C4: when no case matches, or the matched case hits a calendar
\* construction error, no interval is returned.
C4_ErrorGivesNoInterval ==
    Returned /\ (NoCaseMatches \/ CalendarError) => result.kind # "ok"

\* C5: parse_event_date never raises, whatever the phrase.
C5_NeverRaises == Returned => result.kind # "raise"

WindowPresent == start_date # None /\ end_date # None

\* C6: _filter_event_by_date keeps a record exactly when the window is
\* absent, or the record has a resolved start with from <= start <= to.
C6_WindowFilter ==
    Returned =>
        (kept <=> \/ ~WindowPresent
                  \/ /\ info_start \notin {None, Empty}
                     /\ DtLe(start_date, info_start)
                     /\ DtLe(info_start, end_date))

\* C6 witness: a record whose start is exactly window.to is kept.
C6_Witness ==
    /\ Returned
    /\ WindowPresent
    /\ info_start = end_date
    /\ DtLt(start_date, end_date)
    /\ kept

Resolved(rec) == rec.start_dt \notin {None, Empty}

\* C7: the sequence handed over after a run is ascending by start, records
\* without a resolved start after all resolved ones.
C7_SortedOutput ==
    pc = "done" =>
        \A i, j \in 1..Len(output) :
            i < j /\ Resolved(output[j])
                => Resolved(output[i]) /\ DtLe(output[i].start_dt, output[j].start_dt)

\* C7 witness: a finished run whose two records were found latest first.
C7_Witness ==
    /\ pc = "done"
    /\ Len(output) = 2
    /\ output # Chain(all_results)
    /\ DtLt(output[1].start_dt, output[2].start_dt)

PosOf(recs, link) == CHOOSE i \in 1..Len(recs) : recs[i].link = link

\* C8: two records with equal sort keys stand in the output in their order
\* of discovery.
C8_StableInDiscoveryOrder ==
    pc = "done" =>
        \A i, j \in 1..Len(output) :
            i < j /\ DtKey(output[i].start_dt) = DtKey(output[j].start_dt)
                => PosOf(discovered, output[i].link) < PosOf(discovered, output[j].link)

MalformedWindow == WindowPresent /\ DtLt(end_date, start_date)

\* C9: a run given a window with from > to is rejected before any keyword
\* is searched: it never gets to a loaded search page.
C9_MalformedWindowRejected ==
    MalformedWindow => pc \notin {"loop", "returned", "done"}

FetchedLinks == {fetched[i].link : i \in 1..Len(fetched)}

\* A step that records a failed detail fetch.
FetchFailed ==
    Len(fetched') = Len(fetched) + 1 /\ ~fetched'[Len(fetched')].ok

\* C10: a failed detail fetch adds no record and raises nothing, the loop
\* goes on to the next candidate, and when a run is over every link it
\* marked has been fetched.
C10_FetchFailureSkips ==
    /\ [](pc \in {"returned", "done", "idle"} => FetchedLinks = seen)
    /\ [][FetchFailed =>
            /\ events' = events
            /\ discovered' = discovered
            /\ pc' = "loop"
            /\ li' = li + 1
            /\ event_links' = event_links]_vars

\* C10 witness: a finished run whose first fetch failed and whose second
\* gave the one record of the result.
C10_Witness ==
    /\ pc = "done"
    /\ Len(fetched) = 2
    /\ ~fetched[1].ok
    /\ Len(output) = 1
    /\ output[1].link = URL \o fetched[2].link

\* The history entry of a record of the output.
FoundOf(rec) == discovered[PosOf(discovered, rec.link)]

\* C11: a record of the result never comes from a candidate whose title,
\* location or date fragment was empty after extraction.
C11_EmptyFragmentDropped ==
    pc = "done" =>
        \A i \in 1..Len(output) :
            /\ FoundOf(output[i]).title # ""
            /\ FoundOf(output[i]).location # ""
            /\ FoundOf(output[i]).date # <<>>

NamedWeekday(name) ==
    CHOOSE n \in 0..6 :
        <<"lundi", "mardi", "mercredi", "jeudi", "vendredi", "samedi", "dimanche">>[n + 1]
            = name

\* The number of days from the date of ref to the first date at or after it
\* that falls on the named weekday.
DaysToFirst(name, ref) ==
    CHOOSE k \in 0..6 :
        /\ Weekday(AddDays(ref, k)) = NamedWeekday(name)
        /\ \A j \in 0..(k - 1) : Weekday(AddDays(ref, j)) # NamedWeekday(name)

\* The instant at clock value tok on the date of day.
OnDateAt(day, tok) == Dt(day.y, day.mo, day.d, tok.v, tok.m)
IsClock(tok) == tok.v \in 0..23 /\ tok.m \in 0..59

\* The weekday/demain case is the one the cascade takes.
TakesCase6 ==
    /\ REGEX_DATE_CASE_5(Toks) = {} /\ REGEX_DATE_CASE_4(Toks) = {}
    /\ REGEX_DATE_CASE_6(Toks) # {}

\* C13: in the "<weekday|demain> à HH:MM" case, HH:MM a clock time, the
\* result has start = end at HH:MM on reference date + 1 day for "demain",
\* else on the first date at or after the reference date that falls on the
\* named weekday.
C13_WeekdayAtTime ==
    Returned /\ TakesCase6 /\ IsClock(Toks[First(REGEX_DATE_CASE_6(Toks)) + 2]) =>
        LET i == First(REGEX_DATE_CASE_6(Toks))
            day == IF Toks[i].s = "demain" THEN AddDays(ref_date, 1)
                   ELSE AddDays(ref_date, DaysToFirst(Toks[i].s, ref_date))
        IN  result = Interval(OnDateAt(day, Toks[i + 2]), OnDateAt(day, Toks[i + 2]))

\* C13 witness: "lundi à ..." resolved on a Monday to the same day.
C13_Witness ==
    /\ Returned
    /\ TakesCase6
    /\ Toks[First(REGEX_DATE_CASE_6(Toks))].s = "lundi"
    /\ Weekday(ref_date) = 0
    /\ result.kind = "ok"
    /\ result.start.d = ref_date.d
    /\ result.end = result.start

\* The month a written name stands for: the French names, their
\* abbreviations, and the English names datetime reads by itself.
WrittenMonth(name) ==
    CASE name \in {"janvier", "janv.", "janv", "january"} -> 1
      [] name \in {"février", "févr.", "févr", "february"} -> 2
      [] name \in {"mars", "mar", "march"} -> 3
      [] name \in {"avril", "avr", "april"} -> 4
      [] name \in {"mai", "may"} -> 5
      [] name \in {"juin", "june"} -> 6
      [] name \in {"juillet", "juil", "july"} -> 7
      [] name \in {"août", "august"} -> 8
      [] name \in {"septembre", "sept", "september"} -> 9
      [] name \in {"octobre", "oct", "october"} -> 10
      [] name \in {"novembre", "nov", "november"} -> 11
      [] name \in {"décembre", "déc.", "déc", "december", "december."} -> 12
      [] OTHER -> 0

\* The single date + time case is the one the cascade takes.
TakesCase4 == REGEX_DATE_CASE_5(Toks) = {} /\ REGEX_DATE_CASE_4(Toks) # {}

\* C14: an interval returned in the single date + time case has start = end
\* at the day, month, year and time written in the phrase, whatever the
\* reference instant and the weekday name of the phrase.
C14_SingleDateAsWritten ==
    Returned /\ TakesCase4 /\ result.kind = "ok" =>
        LET i == First(REGEX_DATE_CASE_4(Toks)) IN
        /\ result.start = Dt(Toks[i + 2].v, WrittenMonth(Toks[i + 1].s), Toks[i].v,
                             Toks[i + 4].v, Toks[i + 4].m)
        /\ result.end = result.start

\* C14 witness: "vendredi <date> à ..." resolved to a date that is no Friday
\* and lies in another year than the reference instant.
C14_Witness ==
    /\ Returned
    /\ TakesCase4
    /\ result.kind = "ok"
    /\ Toks[1] = W("vendredi")
    /\ Weekday(result.start) # 4
    /\ result.start.y # ref_date.y
    /\ result.end = result.start

\* The explicit-range case is the one the cascade takes.
TakesCase5 == REGEX_DATE_CASE_5(Toks) # {}

\* The endpoints of the range as written, read in the reference year.
RangeStart0 ==
    LET i == First(REGEX_DATE_CASE_5(Toks)) IN
    Dt(ref_date.y, WrittenMonth(Toks[i + 2].s), Toks[i + 1].v, Toks[i + 3].v, Toks[i + 3].m)
RangeEnd0 ==
    LET i == First(REGEX_DATE_CASE_5(Toks)) IN
    Dt(ref_date.y, WrittenMonth(Toks[i + 6].s), Toks[i + 5].v, Toks[i + 7].v, Toks[i + 7].m)

\* C15: in the explicit-range case, when the start read in the reference
\* year is strictly before the reference instant, the resolved start and the
\* resolved end are both advanced out of the reference year.
C15_BothEndpointsAdvanced ==
    Returned /\ TakesCase5 /\ result.kind = "ok" /\ DtLt(RangeStart0, ref_date) =>
        /\ result.start = [RangeStart0 EXCEPT !.y = ref_date.y + 1]
        /\ result.end.y >= ref_date.y + 1

\* C16: in the explicit-range case, when the end read in the reference year
\* is before the start read in the reference year, the resolved end is that
\* endpoint in reference year + 1.
C16_EndCrossesYear ==
    Returned /\ TakesCase5 /\ result.kind = "ok" /\ DtLt(RangeEnd0, RangeStart0) =>
        result.end = [RangeEnd0 EXCEPT !.y = ref_date.y + 1]

\* C16 witness: a range from December into January, not yet begun at the
\* reference instant, resolved across the year boundary.
C16_Witness ==
    /\ Returned
    /\ TakesCase5
    /\ result.kind = "ok"
    /\ RangeStart0.mo = 12
    /\ RangeEnd0.mo = 1
    /\ result.start = RangeStart0
    /\ result.end.y = ref_date.y + 1
    /\ DtLt(result.start, result.end)

\* The bare time-range case is the one the cascade takes.
TakesTime ==
    /\ REGEX_DATE_CASE_5(Toks) = {} /\ REGEX_DATE_CASE_4(Toks) = {}
    /\ REGEX_DATE_CASE_6(Toks) = {} /\ REGEX_TIME_CASE(Toks) # {}

\* The weekday names lundi .. dimanche the phrase holds.
NamedWeekdays ==
    {w \in {"lundi", "mardi", "mercredi", "jeudi", "vendredi", "samedi", "dimanche"} :
        InText(w, Toks)}

SameDate(a, b) == a.y = b.y /\ a.mo = b.mo /\ a.d = b.d

\* C17: in the bare time-range case, with no explicit date and no "demain",
\* a phrase naming one weekday, any of lundi .. dimanche, has its start on
\* the first date at or after the reference date that falls on that weekday.
C17_WeekdayInTimeRange ==
    Returned /\ TakesTime /\ result.kind = "ok" /\ REGEX_DATE_CASE_3(Toks) = {}
             /\ ~InText("demain", Toks) /\ Cardinality(NamedWeekdays) = 1 =>
        \A w \in NamedWeekdays :
            SameDate(result.start, AddDays(ref_date, DaysToFirst(w, ref_date)))

\* Minutes since midnight of a clock value.
MinuteOfDay(tok) == 60 * tok.v + tok.m

\* C18: in the bare time-range case start and end are placed on one date at
\* the two clock values, the end a day later exactly when end <= start; so
\* the end is strictly after the start and at most 24 hours after it.
C18_OvernightWrap ==
    Returned /\ TakesTime /\ result.kind = "ok" =>
        LET i == First(REGEX_TIME_CASE(Toks)) IN
        /\ result.start.h = Toks[i].v /\ result.start.mi = Toks[i].m
        /\ result.end.h = Toks[i + 2].v /\ result.end.mi = Toks[i + 2].m
        /\ IF MinuteOfDay(Toks[i + 2]) <= MinuteOfDay(Toks[i])
           THEN SameDate(result.end, AddDays(result.start, 1))
           ELSE SameDate(result.end, result.start)
        /\ DtLt(result.start, result.end)
        /\ DtLe(result.end, AddDays(result.start, 1))

\* C18 witness: equal clock values, the end exactly 24 hours after the start.
C18_Witness ==
    /\ Returned
    /\ TakesTime
    /\ result.kind = "ok"
    /\ result.end = AddDays(result.start, 1)

\* The phrase writes a full date that datetime constructs.
WritesValidDate ==
    /\ REGEX_DATE_CASE_3(Toks) # {}
    /\ LET i == First(REGEX_DATE_CASE_3(Toks)) IN
       Strptime(Toks[i].v, MonthEn(Toks[i + 1].s), Toks[i + 2].v, 0, 0, lc_time) # None

C20_DemainBeforeWeekday ==
    Returned /\ TakesTime /\ result.kind = "ok" /\ REGEX_DATE_CASE_3(Toks) = {}
             /\ InText("demain", Toks) =>
        SameDate(result.start, AddDays(ref_date, 1))

\* A step that makes a detail fetch.
FetchStep == Len(fetched') = Len(fetched) + 1

\* C21: a link is in the seen set before its detail fetch begins, every
\* candidate waiting for its fetch is already marked, and no link stands
\* twice among the candidates of a keyword pass.
C21_MarkedBeforeFetch ==
    /\ [](/\ \A i \in 1..Len(event_links) : event_links[i] \in seen
          /\ \A i, j \in 1..Len(event_links) :
                event_links[i] = event_links[j] => i = j)
    /\ [][FetchStep => fetched'[Len(fetched')].link \in seen]_vars

\* C21 witness: the first keyword pass on the object is over, its search
\* page listed /events/2/ twice, and two links were fetched, once each.
C21_Witness ==
    /\ pc = "loop"
    /\ ki = 1
    /\ li > Len(event_links)
    /\ Len(event_links) = 2
    /\ H2 \in skipped
    /\ Len(fetched) = 2
    /\ fetched[1].link = "/events/2/"
    /\ fetched[2].link = "/events/1/"

\* C22: each call of scrape_multiple starts from an empty seen set.
C22_SeenPerRun == pc = "scrape" /\ ki = 1 => seen = {}

\* An exception has left scrape_multiple.
Aborted == pc = "raised"

\* C24: a failure while the candidate list of a keyword is obtained never
\* aborts the run: a run ended by an exception was inside the detail loop.
C24_SearchFailureSkips == Aborted => li >= 1

\* C25: every record a keyword pass kept is in the final result of the run.
C25_NothingLost ==
    pc = "done" =>
        \A i \in 1..Len(discovered) :
            \E j \in 1..Len(output) : output[j].link = discovered[i].link

\* C26: two records of one run whose pages showed the same date phrase have
\* the same resolved start.
C26_OneReferenceInstant ==
    \A i, j \in 1..Len(discovered) :
        discovered[i].date = discovered[j].date
            => discovered[i].start_dt = discovered[j].start_dt

\* C27: over the lifetime of the scraper object no link is detail-fetched
\* twice, whatever became of its first fetch.
C27_FetchedAtMostOnce ==
    \A i, j \in 1..Len(fetched) : fetched[i].link = fetched[j].link => i = j

\* C27 witness: the fetch of /events/1/ failed, the link was listed again
\* later and passed over, and the run is over.
C27_Witness ==
    /\ pc = "done"
    /\ Len(fetched) >= 1
    /\ fetched[1].link = "/events/1/"
    /\ ~fetched[1].ok
    /\ H1 \in skipped
    /\ Cardinality({i \in 1..Len(fetched) : fetched[i].link = "/events/1/"}) = 1

\* C28: in the explicit-range case the start of a returned interval is at
\* or after the reference instant.
C28_RangeStartNotPast ==
    Returned /\ TakesCase5 /\ result.kind = "ok" => DtLe(ref_date, result.start)

\* C28 witness: a start read before the reference instant, returned in the
\* year after the reference year.
C28_Witness ==
    /\ Returned
    /\ TakesCase5
    /\ result.kind = "ok"
    /\ DtLt(RangeStart0, ref_date)
    /\ result.start = [RangeStart0 EXCEPT !.y = ref_date.y + 1]

\* C29: with exactly one window bound supplied every record is kept, and a
\* record is rejected only when both bounds are present.
C29_OneBoundKeepsAll ==
    Returned =>
        /\ (start_date = None) # (end_date = None) => kept
        /\ ~kept => WindowPresent

\* C29 witness: only start_date is supplied and a record starting before it
\* is kept.
C29_Witness ==
    /\ Returned
    /\ start_date # None
    /\ end_date = None
    /\ info_start \notin {None, Empty}
    /\ DtLt(info_start, start_date)
    /\ kept

\* The date fragment _get_event_date selects on the page, lower-cased.
Fragment == LowerText(_get_event_date(page_shown.blocks))

\* The fragment matches no grammar case.
NoCaseIn(toks) ==
    /\ REGEX_DATE_CASE_5(toks) = {} /\ REGEX_DATE_CASE_4(toks) = {}
    /\ REGEX_DATE_CASE_6(toks) = {} /\ REGEX_TIME_CASE(toks) = {}

\* The fragment writes a full date that is no date of the calendar.
BadDateIn(toks) ==
    /\ REGEX_DATE_CASE_3(toks) # {}
    /\ LET i == First(REGEX_DATE_CASE_3(toks)) IN
       ~ValidDate(toks[i + 2].v, WrittenMonth(toks[i + 1].s), toks[i].v)

\* C23: a candidate whose date fragment matches no grammar case, or writes
\* a date that cannot be constructed, yields no record, with or without a
\* window.
C23_UnresolvedDropped ==
    hpc = "ret" /\ page_shown.ok /\ Fragment # <<>>
                /\ (NoCaseIn(Fragment) \/ BadDateIn(Fragment)) =>
        events = <<>>

\* A span of the page holds a phrase parse_event_date resolves.
CarriesPhrase ==
    \E b \in 1..Len(page_shown.blocks) :
        \E k \in 1..Len(page_shown.blocks[b]) :
            parse_event_date(page_shown.blocks[b][k], Clock[now], lc_time).kind = "ok"

\* C30: a candidate whose page carries a phrase of any shape that
\* parse_event_date resolves has a date fragment selected by
\* _get_event_date and, with no window, yields a record.
C30_EveryShapeSelected ==
    hpc = "ret" /\ page_shown.ok /\ start_date = None /\ end_date = None
                /\ CarriesPhrase =>
        /\ Fragment # <<>>
        /\ Len(events) = 1

====
